---- MODULE Spec2Model ----
(***************************************************************************)
(* Model of audio_comms::utilities::result::Result<ErrorTrait>             *)
(* (result/include/result/Result.hpp).                                     *)
(*                                                                         *)
(* Text (std::string, the output of std::ostringstream) is a sequence of   *)
(* one-character strings.  A Result object is a record with the two data   *)
(* members _errorCode and _message, plus the trait it is instantiated on.  *)
(* The model follows one object r through its life (construction, the     *)
(* operations on it, destruction); the other Results that take part in an  *)
(* operation (the input of the translating constructor, the right operand  *)
(* of == and of <<) are drawn from Inputs.                                 *)
(***************************************************************************)
EXTENDS Integers, Sequences, FiniteSets, TLC

(* ------------------------------ bounds -------------------------------- *)

\* number of operator<< calls made on one object during its life
MaxAppends == 2

\* number of threads calling success() concurrently
NumThreads == 2

Threads == 1..NumThreads

(* ------------------------------- text --------------------------------- *)

Digit(k) == <<"0", "1", "2", "3", "4", "5", "6", "7", "8", "9">>[k + 1]

RECURSIVE NatToStr(_)
\* std::ostream << (unsigned part of an int): decimal, most significant first
NatToStr(n) == IF n < 10 THEN <<Digit(n)>> ELSE NatToStr(n \div 10) \o <<Digit(n % 10)>>

\* std::ostream << int
IntToStr(n) == IF n < 0 THEN <<"-">> \o NatToStr(0 - n) ELSE NatToStr(n)

IsPrefix(s, t) == Len(s) <= Len(t) /\ SubSeq(t, 1, Len(s)) = s

IsSuffix(s, t) == Len(s) <= Len(t) /\ SubSeq(t, Len(t) - Len(s) + 1, Len(t)) = s

\* ": ", the separator of Append<Result<Err> >::run and of format()
Separator == <<":", " ">>

SuccessText == <<"S", "u", "c", "c", "e", "s", "s">>

CodePrefix == <<"C", "o", "d", "e", " ">>

(* --------------------- the error traits (ErrorTrait) ------------------- *)
(* Two traits: A = {OK = 0, NOT_FOUND = 1, IO_ERROR = 2}, success OK,      *)
(* defaultError IO_ERROR; B = {DONE = 1, FAILED = -12}, success DONE,      *)
(* defaultError FAILED.                                                    *)

Traits == {"A", "B"}

Codes(d) == IF d = "A" THEN {0, 1, 2} ELSE {1, 0 - 12}

TraitSuccess(d) == IF d = "A" THEN 0 ELSE 1

TraitDefaultError(d) == IF d = "A" THEN 2 ELSE 0 - 12

codeToString(d, c) ==
    IF d = "A"
    THEN (IF c = 0 THEN <<"o", "k">> ELSE IF c = 1 THEN <<"X">> ELSE <<"Y">>)
    ELSE (IF c = 1 THEN <<"d">> ELSE <<"Z">>)

(* ------------------------- the class Result --------------------------- *)

Null == [alive |-> FALSE, dom |-> "A", code |-> 0, msg |-> <<>>]

\* Result(Code code): _errorCode(code), _message default-constructed
ResultCtor(d, c) == [alive |-> TRUE, dom |-> d, code |-> c, msg |-> <<>>]

getErrorCode(r) == r.code

getMessage(r) == r.msg

\* a variant that takes code 0 for the success code
isSuccess_Zero(r) == r.code = 0

isSuccess(r) == r.code = TraitSuccess(r.dom)

isFailure(r) == ~isSuccess(r)

\* operator typename ErrorTrait::Code()
CodeConv(r) == r.code

\* a variant that compares the messages too
EqOp_WithMessage(r, toCompare) == r.code = toCompare.code /\ r.msg = toCompare.msg

\* operator==: both operands are Result<ErrorTrait> of the same trait
EqOp(r, toCompare) == r.code = toCompare.code

\* a variant that writes the parentheses whatever the message holds
format_AlwaysParen(r) ==
    IF isFailure(r)
    THEN CodePrefix \o IntToStr(r.code) \o Separator \o codeToString(r.dom, r.code)
         \o <<" ", "(">> \o r.msg \o <<")">>
    ELSE SuccessText

format(r) ==
    IF isFailure(r)
    THEN CodePrefix \o IntToStr(r.code) \o Separator \o codeToString(r.dom, r.code)
         \o (IF Len(r.msg) > 0 THEN <<" ", "(">> \o r.msg \o <<")">> ELSE <<>>)
    ELSE SuccessText

(* The things that are streamed into a Result: text and ints (the generic *)
(* Append<Data>) and Results (Append<Result<Err> >).                       *)

StrData(s) == [t |-> "str", s |-> s, n |-> 0, r |-> Null]

IntData(n) == [t |-> "int", s |-> <<>>, n |-> n, r |-> Null]

ResData(x) == [t |-> "res", s |-> <<>>, n |-> 0, r |-> x]

\* the operand is the very object the operator is called on (r << r)
SelfData(x) == [t |-> "self", s |-> <<>>, n |-> 0, r |-> x]

NoData == [t |-> "none", s |-> <<>>, n |-> 0, r |-> Null]

IsResultData(aT) == aT.t \in {"res", "self"}

\* ss << data; ss.str()
Stringify(data) == IF data.t = "int" THEN IntToStr(data.n) ELSE data.s

\* a variant that assigns the text instead of appending it
AppendDataRun_Assign(r, data) == [r EXCEPT !.msg = Stringify(data)]

\* Append<Data>::run(res, data)
AppendDataRun(r, data) == [r EXCEPT !.msg = r.msg \o Stringify(data)]

\* a variant that adds the separator whatever the message holds
AppendResultRun_LeadingSep(r, data, alias) ==
    LET sep == [r EXCEPT !.msg = r.msg \o Separator]
    IN  [sep EXCEPT !.msg = sep.msg \o format(IF alias THEN sep ELSE data)]

\* Append<Result<Err> >::run(res, data); alias: data is the object res itself,
\* which then is formatted after the separator was added to it
AppendResultRun(r, data, alias) ==
    LET sep == IF r.msg # <<>> THEN [r EXCEPT !.msg = r.msg \o Separator] ELSE r
    IN  [sep EXCEPT !.msg = sep.msg \o format(IF alias THEN sep ELSE data)]

\* a variant that hands the code of an appended Result on to the target
OperatorShl_TakesCode(r, aT) ==
    IF IsResultData(aT)
    THEN [AppendResultRun(r, aT.r, aT.t = "self") EXCEPT !.code = aT.r.code]
    ELSE AppendDataRun(r, aT)

\* operator<<(aT): Append<T>::run(*this, aT) picks the specialisation by the
\* type of aT; the value is *this after the call (the caller gets a copy of it)
OperatorShl(r, aT) ==
    IF IsResultData(aT) THEN AppendResultRun(r, aT.r, aT.t = "self") ELSE AppendDataRun(r, aT)

\* a variant with the two codes taken the wrong way round
TranslateCtor_Swapped(d, inputResult, failureCode, successCode) ==
    IF isFailure(inputResult)
    THEN OperatorShl(ResultCtor(d, successCode), ResData(inputResult))
    ELSE ResultCtor(d, failureCode)

\* Result(inputResult, failureCode, successCode)
TranslateCtor(d, inputResult, failureCode, successCode) ==
    IF isFailure(inputResult)
    THEN OperatorShl(ResultCtor(d, failureCode), ResData(inputResult))
    ELSE ResultCtor(d, successCode)

(* ----------------------- success(): the local static ------------------- *)
(* static Result<ErrorTrait> success(ErrorTrait::success) is a block-scope *)
(* static: its storage is there from program start, a guard says whether   *)
(* it has been constructed, and a thread that reaches the declaration      *)
(* while another thread constructs the object waits for it.                *)

\* the storage of the static before and during its construction
Raw == [alive |-> FALSE, dom |-> "A", code |-> 0, msg |-> <<"?">>]

\* a variant without the wait: whoever finds the static not done constructs it
GuardAcquire_NoWait(g) == g # "done"

\* may a thread that finds the guard in state g start constructing the static
GuardAcquire(g) == g = "uninit"

\* a variant that leaves out the constructor argument: static Result success;
SuccessCtor_Default(d) == ResultCtor(d, TraitDefaultError(d))

\* the constructor call of the static: Result(ErrorTrait::success)
SuccessCtor(d) == ResultCtor(d, TraitSuccess(d))

(* ------------------------------- inputs -------------------------------- *)

Abc == <<"a", "b", "c">>

\* what is streamed in by the generic append
DataValues == {StrData(Abc), StrData(<<>>), IntData(0 - 7)}

\* the other Results: every code of every trait, with and without a message
Inputs ==
    UNION {{AppendDataRun(ResultCtor(d, c), v) :
               c \in Codes(d), v \in {StrData(<<>>), StrData(Abc)}} : d \in Traits}

(* -------------------------------- state -------------------------------- *)

VARIABLES
    r,      \* the object: [alive, dom, code, msg]
    hist,   \* history of r: operator<< calls on it, the formats appended to it
    last,   \* the last operation: its name, its arguments, what it returned
    guard,  \* per trait, the guard of success()'s static: uninit, pending, done
    stat,   \* per trait, the storage of success()'s static
    ctors,  \* per trait, how many times the static was constructed
    pc,     \* per thread, where it is in success()
    tdom,   \* per thread, the trait whose success() it calls
    obs     \* per thread, what it last read through the reference returned

vars == <<r, hist, last, guard, stat, ctors, pc, tdom, obs>>

threadVars == <<pc, tdom, obs>>

staticVars == <<guard, stat, ctors>>

NoHist == [n |-> 0, pure |-> TRUE, self |-> FALSE, succ |-> FALSE, log |-> <<>>]

NoLast ==
    [op |-> "none", pre |-> Null, x |-> NoData, y |-> NoData, c1 |-> 0, c2 |-> 0,
     retB |-> FALSE, retS |-> <<>>, retC |-> 0, retR |-> Null]

Init ==
    /\ r = Null
    /\ hist = NoHist
    /\ last = NoLast
    /\ guard = [d \in Traits |-> "uninit"]
    /\ stat = [d \in Traits |-> Raw]
    /\ ctors = [d \in Traits |-> 0]
    /\ pc = [t \in Threads |-> "idle"]
    /\ tdom = [t \in Threads |-> "A"]
    /\ obs = [t \in Threads |-> Null]

(* --------------------------- construction ------------------------------ *)

\* Result<d> r(c);
Construct(d, c) ==
    /\ ~r.alive
    /\ r' = ResultCtor(d, c)
    /\ hist' = NoHist
    /\ last' = [NoLast EXCEPT !.op = "ctor", !.c1 = c]
    /\ UNCHANGED <<staticVars, threadVars>>

\* Result<d> r;
ConstructDefault(d) ==
    /\ ~r.alive
    /\ r' = ResultCtor(d, TraitDefaultError(d))
    /\ hist' = NoHist
    /\ last' = [NoLast EXCEPT !.op = "ctorDefault"]
    /\ UNCHANGED <<staticVars, threadVars>>

\* the history of an object the translating constructor made from x
TranslateHist(x) ==
    IF isFailure(x) THEN [NoHist EXCEPT !.n = 1, !.log = <<format(x)>>] ELSE NoHist

\* Result<d> r(x, F, S);
Translate(d, x, F, S) ==
    /\ ~r.alive
    /\ r' = TranslateCtor(d, x, F, S)
    /\ hist' = TranslateHist(x)
    /\ last' = [NoLast EXCEPT !.op = "translate", !.x = ResData(x), !.c1 = F, !.c2 = S]
    /\ UNCHANGED <<staticVars, threadVars>>

\* Result<d> r(x, F);  successCode = ErrorTrait::success
TranslateDefault(d, x, F) ==
    /\ ~r.alive
    /\ r' = TranslateCtor(d, x, F, TraitSuccess(d))
    /\ hist' = TranslateHist(x)
    /\ last' = [NoLast EXCEPT !.op = "translateDefault", !.x = ResData(x), !.c1 = F]
    /\ UNCHANGED <<staticVars, threadVars>>

\* end of r's scope
Destroy ==
    /\ r.alive
    /\ r' = Null
    /\ hist' = NoHist
    /\ last' = NoLast
    /\ UNCHANGED <<staticVars, threadVars>>

(* ------------------------------ appending ------------------------------ *)

\* the right operands of <<: data, another Result, r itself
Operands ==
    DataValues \cup {ResData(x) : x \in Inputs} \cup {SelfData(Null)}

\* the operand as the call on object cur sees it
Bind(aT, cur) == IF aT.t = "self" THEN SelfData(cur) ELSE aT

\* the history of an object after operator<<(aT) on it
AppendHist(h, aT) ==
    [h EXCEPT !.pure = h.pure /\ IsResultData(aT),
              !.self = h.self \/ aT.t = "self",
              !.log = IF IsResultData(aT) THEN Append(h.log, format(aT.r)) ELSE h.log]

\* r << aT;
AppendStmt(a) ==
    /\ r.alive
    /\ hist.n < MaxAppends
    /\ LET aT == Bind(a, r)
       IN  /\ r' = OperatorShl(r, aT)
           /\ hist' = [AppendHist(hist, aT) EXCEPT !.n = hist.n + 1]
           /\ last' = [NoLast EXCEPT !.op = "append", !.pre = r, !.x = aT,
                                     !.retR = OperatorShl(r, aT)]
    /\ UNCHANGED <<staticVars, threadVars>>

\* r << v;  v is text or a number
AppendData(v) == v \in DataValues /\ AppendStmt(v)

\* r << x;  x is another Result
AppendResult(x) == x \in Inputs /\ AppendStmt(ResData(x))

\* r << r;
AppendSelf == AppendStmt(SelfData(Null))

\* a variant in which the second call of the chain gets lost
ChainValue_Lost(r1, bT) == r1

\* the value of (r << a) << b: operator<< returns a copy of r by value, and the
\* second call is made on that temporary
ChainValue(r1, bT) == OperatorShl(r1, bT)

\* r << a << b;
Chain(a, b) ==
    /\ r.alive
    /\ hist.n + 2 <= MaxAppends
    /\ LET aT == Bind(a, r)
           r1 == OperatorShl(r, aT)
           \* b is bound after r << a was evaluated; the temporary is not r
           bT == IF b.t = "self" THEN ResData(r1) ELSE b
       IN  /\ r' = r1
           /\ hist' = [AppendHist(hist, aT) EXCEPT !.n = hist.n + 2]
           /\ last' = [NoLast EXCEPT !.op = "chain", !.pre = r, !.x = aT, !.y = bT,
                                     !.retR = ChainValue(r1, bT)]
    /\ UNCHANGED <<staticVars, threadVars>>

(* ------------------------------ observers ------------------------------ *)

Observe(rec) ==
    /\ r.alive
    /\ last' = rec
    /\ UNCHANGED <<r, hist, staticVars, threadVars>>

GetErrorCode == Observe([NoLast EXCEPT !.op = "getErrorCode", !.pre = r, !.retC = getErrorCode(r)])

GetMessage == Observe([NoLast EXCEPT !.op = "getMessage", !.pre = r, !.retS = getMessage(r)])

IsSuccess == Observe([NoLast EXCEPT !.op = "isSuccess", !.pre = r, !.retB = isSuccess(r)])

IsFailure == Observe([NoLast EXCEPT !.op = "isFailure", !.pre = r, !.retB = isFailure(r)])

Convert == Observe([NoLast EXCEPT !.op = "convert", !.pre = r, !.retC = CodeConv(r)])

Format == Observe([NoLast EXCEPT !.op = "format", !.pre = r, !.retS = format(r)])

\* r == x, x of r's trait
Equals(x) ==
    /\ x.dom = r.dom
    /\ Observe([NoLast EXCEPT !.op = "eq", !.pre = r, !.x = ResData(x), !.retB = EqOp(r, x)])

(* ------------------- success() called by r's owner --------------------- *)

\* the static after a call of success() that nothing interleaves with
StatAfterCall(d) ==
    IF GuardAcquire(guard[d]) THEN [stat EXCEPT ![d] = SuccessCtor(d)] ELSE stat

\* one whole call of success() for trait d: construct on first use
CallSuccess(d) ==
    /\ guard[d] # "pending"
    /\ guard' = [guard EXCEPT ![d] = "done"]
    /\ stat' = StatAfterCall(d)
    /\ ctors' = [ctors EXCEPT ![d] = IF GuardAcquire(guard[d]) THEN @ + 1 ELSE @]

\* Result<d>::success(), read through the reference it returns
SuccessCall(d) ==
    /\ CallSuccess(d)
    /\ last' = [NoLast EXCEPT !.op = "success", !.pre = r, !.retR = StatAfterCall(d)[d],
                              !.retS = format(StatAfterCall(d)[d])]
    /\ UNCHANGED <<r, hist, threadVars>>

\* Result<d> r(Result<d>::success());  the implicit copy constructor
SuccessCopy(d) ==
    /\ ~r.alive
    /\ CallSuccess(d)
    /\ r' = StatAfterCall(d)[d]
    /\ hist' = [NoHist EXCEPT !.succ = TRUE]
    /\ last' = [NoLast EXCEPT !.op = "successCopy", !.retR = StatAfterCall(d)[d]]
    /\ UNCHANGED threadVars

\* r == Result<d>::success(), d the trait of r
EqualsSuccess ==
    /\ r.alive
    /\ CallSuccess(r.dom)
    /\ last' = [NoLast EXCEPT !.op = "eqSuccess", !.pre = r,
                              !.x = ResData(StatAfterCall(r.dom)[r.dom]),
                              !.retB = EqOp(r, StatAfterCall(r.dom)[r.dom])]
    /\ UNCHANGED <<r, hist, threadVars>>

Next ==
    \/ \E d \in Traits : \E c \in Codes(d) : Construct(d, c)
    \/ \E d \in Traits : ConstructDefault(d)
    \/ \E d \in Traits : \E x \in Inputs : \E F, S \in Codes(d) : Translate(d, x, F, S)
    \/ \E d \in Traits : \E x \in Inputs : \E F \in Codes(d) : TranslateDefault(d, x, F)
    \/ Destroy
    \/ \E v \in DataValues : AppendData(v)
    \/ \E x \in Inputs : AppendResult(x)
    \/ AppendSelf
    \/ \E a, b \in Operands : Chain(a, b)
    \/ GetErrorCode
    \/ GetMessage
    \/ IsSuccess
    \/ IsFailure
    \/ Convert
    \/ Format
    \/ \E x \in Inputs : Equals(x)

Spec == Init /\ [][Next]_vars

(* success() in the life of r: r is constructed directly or as a copy of   *)
(* the value success() returns, appended to, inspected and destroyed.      *)
NextCache ==
    \/ \E d \in Traits : \E c \in Codes(d) : Construct(d, c)
    \/ \E d \in Traits : SuccessCopy(d)
    \/ \E d \in Traits : SuccessCall(d)
    \/ EqualsSuccess
    \/ \E v \in DataValues : AppendData(v)
    \/ \E x \in Inputs : AppendResult(x)
    \/ AppendSelf
    \/ Format
    \/ Destroy

SpecCache == Init /\ [][NextCache]_vars

(* ---------------- success() called by concurrent threads --------------- *)

\* a thread enters success() of trait d
T_Call(t, d) ==
    /\ pc[t] = "idle"
    /\ pc' = [pc EXCEPT ![t] = "test"]
    /\ tdom' = [tdom EXCEPT ![t] = d]
    /\ obs' = [obs EXCEPT ![t] = Null]
    /\ UNCHANGED <<r, hist, last, staticVars>>

\* the unlocked test of the guard
T_Test(t) ==
    /\ pc[t] = "test"
    /\ pc' = [pc EXCEPT ![t] = IF guard[tdom[t]] = "done" THEN "use" ELSE "acquire"]
    /\ UNCHANGED <<r, hist, last, staticVars, tdom, obs>>

\* taking the guard: the first thread goes on to construct, one that finds the
\* construction under way waits, one that finds it done goes on
T_Acquire(t) ==
    /\ pc[t] = "acquire"
    /\ \/ /\ GuardAcquire(guard[tdom[t]])
          /\ guard' = [guard EXCEPT ![tdom[t]] = "pending"]
          /\ pc' = [pc EXCEPT ![t] = "ctorCode"]
       \/ /\ ~GuardAcquire(guard[tdom[t]])
          /\ guard[tdom[t]] = "done"
          /\ guard' = guard
          /\ pc' = [pc EXCEPT ![t] = "use"]
    /\ UNCHANGED <<r, hist, last, stat, ctors, tdom, obs>>

\* the constructor's initialiser _errorCode(code)
T_CtorCode(t) ==
    /\ pc[t] = "ctorCode"
    /\ stat' = [stat EXCEPT ![tdom[t]] =
                   [Raw EXCEPT !.dom = tdom[t], !.code = SuccessCtor(tdom[t]).code]]
    /\ pc' = [pc EXCEPT ![t] = "ctorMsg"]
    /\ UNCHANGED <<r, hist, last, guard, ctors, tdom, obs>>

\* the construction of _message, which ends the constructor
T_CtorMsg(t) ==
    /\ pc[t] = "ctorMsg"
    /\ stat' = [stat EXCEPT ![tdom[t]] = SuccessCtor(tdom[t])]
    /\ ctors' = [ctors EXCEPT ![tdom[t]] = @ + 1]
    /\ pc' = [pc EXCEPT ![t] = "release"]
    /\ UNCHANGED <<r, hist, last, guard, tdom, obs>>

\* the guard is marked done, which lets the waiting threads go on
T_Release(t) ==
    /\ pc[t] = "release"
    /\ guard' = [guard EXCEPT ![tdom[t]] = "done"]
    /\ pc' = [pc EXCEPT ![t] = "use"]
    /\ UNCHANGED <<r, hist, last, stat, ctors, tdom, obs>>

\* return success; the caller reads the object through the reference
T_Use(t) ==
    /\ pc[t] = "use"
    /\ obs' = [obs EXCEPT ![t] = stat[tdom[t]]]
    /\ pc' = [pc EXCEPT ![t] = "idle"]
    /\ UNCHANGED <<r, hist, last, staticVars, tdom>>

NextSuccess ==
    \/ \E t \in Threads : \E d \in Traits : T_Call(t, d)
    \/ \E t \in Threads : T_Test(t)
    \/ \E t \in Threads : T_Acquire(t)
    \/ \E t \in Threads : T_CtorCode(t)
    \/ \E t \in Threads : T_CtorMsg(t)
    \/ \E t \in Threads : T_Release(t)
    \/ \E t \in Threads : T_Use(t)

SpecSuccess == Init /\ [][NextSuccess]_vars

(* ============================== properties ============================= *)

Sep(cond) == IF cond THEN Separator ELSE <<>>

\* what operator<<(aT) is to make of message m: text and numbers go in as they
\* are, a Result goes in formatted, after ": " when m is not empty; when the
\* Result is the target itself it is formatted with the separator already in it
Appended(m, aT) ==
    IF aT.t = "res" THEN m \o Sep(m # <<>>) \o format(aT.r)
    ELSE IF aT.t = "self"
         THEN (m \o Sep(m # <<>>)) \o format([aT.r EXCEPT !.msg = m \o Sep(m # <<>>)])
         ELSE m \o Stringify(aT)

\* the same with every Result formatted as it is before the call
AppendedAsBefore(m, aT) ==
    IF IsResultData(aT) THEN m \o Sep(m # <<>>) \o format(aT.r) ELSE m \o Stringify(aT)

RECURSIVE JoinLog(_)
\* x1.format() + ": " + x2.format() + ... + ": " + xn.format()
JoinLog(log) ==
    IF log = <<>> THEN <<>>
    ELSE IF Len(log) = 1 THEN log[1]
    ELSE JoinLog(SubSeq(log, 1, Len(log) - 1)) \o Separator \o log[Len(log)]

(* C1 as claimed: after r << a << b the message of r has a and then b       *)
(* appended, so it equals the message of the value the chain returns.       *)
C1_ChainAppendsBothToTarget ==
    last.op = "chain" =>
        /\ r.msg = Appended(Appended(last.pre.msg, last.x), last.y)
        /\ r.msg = last.retR.msg

(* C1 as amended: operator<< appends to the object it is called on and      *)
(* returns a copy of it; after r << a << b the value the chain returns has   *)
(* a and then b appended in that order, each with the separator rule        *)
(* applied to the message the previous append left, while r itself has      *)
(* only a appended; the codes of r and of the returned value are r's.       *)
C1_ChainValueCumulativeTargetFirstOnly ==
    last.op = "chain" =>
        /\ r.msg = Appended(last.pre.msg, last.x)
        /\ last.retR.msg = Appended(r.msg, last.y)
        /\ r.code = last.pre.code
        /\ last.retR.code = last.pre.code

\* a chain of two Results was evaluated and its value has more text than r
C1_Witness ==
    /\ last.op = "chain"
    /\ last.x.t = "res"
    /\ last.y.t = "res"
    /\ Len(last.retR.msg) > Len(r.msg)

(* C2 as claimed: ": " is inserted exactly when the appended value is a     *)
(* Result and the target's message is not empty before the append, a        *)
(* generic append adds the text only; and Results x1..xn appended one       *)
(* after another to an empty message leave x1.format() + ": " + ... +       *)
(* ": " + xn.format(), each xi formatted as it is when it is appended.      *)
C2_SeparatorAndJoinForAnyResults ==
    /\ last.op = "append" => r.msg = AppendedAsBefore(last.pre.msg, last.x)
    /\ (r.alive /\ hist.pure) => r.msg = JoinLog(hist.log)

(* C2 as amended: the separator rule as claimed; the joined form holds for  *)
(* Results x1..xn that are other objects than the target.  When the target  *)
(* is appended to itself (r << r) the separator is added to its message     *)
(* before it is formatted, so what is appended is the format of the target  *)
(* with the separator already at the end of its message.                    *)
C2_SeparatorAndJoinForOtherResults ==
    /\ last.op = "append" => r.msg = Appended(last.pre.msg, last.x)
    /\ (last.op = "append" /\ last.x.t # "self")
          => r.msg = AppendedAsBefore(last.pre.msg, last.x)
    /\ (r.alive /\ hist.pure /\ ~hist.self) => r.msg = JoinLog(hist.log)

\* "Code 1: X: Code 2: Y": two failures appended to an empty message
C2_Witness ==
    /\ last.op = "append"
    /\ hist.pure
    /\ ~hist.self
    /\ Len(hist.log) = 2
    /\ r.msg = <<"C", "o", "d", "e", " ", "1", ":", " ", "X", ":", " ",
                 "C", "o", "d", "e", " ", "2", ":", " ", "Y">>

(* C3: Result(inputResult, F, S): if inputResult is a failure the new       *)
(* Result has code F and exactly inputResult.format() as its message, with  *)
(* no separator before it; otherwise it has code S (the trait's success     *)
(* code when S is not given) and an empty message.                          *)
C3_TranslateCodeAndMessage ==
    /\ last.op = "translate" =>
          IF isFailure(last.x.r)
          THEN getErrorCode(r) = last.c1 /\ getMessage(r) = format(last.x.r)
          ELSE getErrorCode(r) = last.c2 /\ getMessage(r) = <<>>
    /\ last.op = "translateDefault" =>
          IF isFailure(last.x.r)
          THEN getErrorCode(r) = last.c1 /\ getMessage(r) = format(last.x.r)
          ELSE getErrorCode(r) = TraitSuccess(r.dom) /\ getMessage(r) = <<>>

\* a failure of trait A that carries a message was translated into trait B
C3_Witness ==
    /\ last.op = "translate"
    /\ isFailure(last.x.r)
    /\ last.x.r.msg = Abc
    /\ last.x.r.dom = "A"
    /\ r.dom = "B"
    /\ r.msg = <<"C", "o", "d", "e", " ", "1", ":", " ", "X", " ", "(", "a", "b", "c", ")">>

C7_MessageAppendOnly ==
    /\ [][(r.alive /\ r'.alive) => IsPrefix(r.msg, r'.msg)]_vars
    /\ [](last.op \in {"ctor", "ctorDefault"} => r.msg = <<>>)

\* text was appended to a message that was not empty
C7_Witness ==
    /\ last.op = "append"
    /\ last.pre.msg # <<>>
    /\ Len(r.msg) > Len(last.pre.msg)
    /\ hist.n = 2

(* C8: no append, format, comparison or accessor call changes the code of   *)
(* a Result: getErrorCode(), isSuccess() and isFailure() return after it    *)
(* what they returned before it.                                            *)
C8_CodeFixed ==
    [][(r.alive /\ r'.alive) =>
          /\ getErrorCode(r') = getErrorCode(r)
          /\ isSuccess(r') = isSuccess(r)
          /\ isFailure(r') = isFailure(r)]_vars

\* a failure of another code was appended to a success, which is a success still
C8_Witness ==
    /\ last.op = "append"
    /\ last.x.t = "res"
    /\ isFailure(last.x.r)
    /\ isSuccess(last.pre)
    /\ isSuccess(r)

(* C9: r == x holds if and only if the two codes are equal, whatever the    *)
(* two messages hold.                                                       *)
C9_EqualityByCode ==
    last.op = "eq" => (last.retB <=> getErrorCode(last.pre) = getErrorCode(last.x.r))

\* two Results of the same code and of different messages compared equal
C9_Witness ==
    /\ last.op = "eq"
    /\ last.retB
    /\ last.pre.msg # last.x.r.msg
    /\ last.pre.msg # <<>>
    /\ last.x.r.msg # <<>>

(* C10: for every Result, isSuccess() == (getErrorCode() == success) and    *)
(* isFailure() == !isSuccess(); Result(c).getErrorCode() == c,              *)
(* Result().getErrorCode() == defaultError, and the conversion to Code      *)
(* gives what getErrorCode() gives.                                         *)
C10_Classification ==
    /\ \A o \in {r} \cup {SuccessCtor(d) : d \in Traits} :
          o.alive =>
             /\ isSuccess(o) <=> getErrorCode(o) = TraitSuccess(o.dom)
             /\ isFailure(o) <=> ~isSuccess(o)
             /\ CodeConv(o) = getErrorCode(o)
    /\ last.op = "ctor" => getErrorCode(r) = last.c1
    /\ last.op = "ctorDefault" => getErrorCode(r) = TraitDefaultError(r.dom)
    /\ last.op = "isSuccess" => (last.retB <=> last.pre.code = TraitSuccess(last.pre.dom))
    /\ last.op = "isFailure" => (last.retB <=> last.pre.code # TraitSuccess(last.pre.dom))
    /\ last.op = "getErrorCode" => last.retC = last.pre.code
    /\ last.op = "convert" => last.retC = last.pre.code

\* isSuccess() was called on a Result of trait B that holds B's success code 1
C10_Witness ==
    /\ last.op = "isSuccess"
    /\ last.pre.dom = "B"
    /\ last.pre.code = 1
    /\ last.retB

\* the value success() is to give for trait d
SuccessValue(d) == [alive |-> TRUE, dom |-> d, code |-> TraitSuccess(d), msg |-> <<>>]

(* C5: when threads call success() of one trait at the same time before     *)
(* the value is there, it is constructed once, every caller reads the same  *)
(* completely constructed value (success code, empty message), and no       *)
(* caller reads a value under construction.                                 *)
C5_SuccessInitRaceFree ==
    /\ \A d \in Traits : ctors[d] <= 1
    /\ \A t \in Threads :
          /\ pc[t] = "use" => stat[tdom[t]] = SuccessValue(tdom[t])
          /\ obs[t] # Null => obs[t] = SuccessValue(tdom[t])
    /\ \A t, u \in Threads :
          (obs[t] # Null /\ obs[u] # Null /\ tdom[t] = tdom[u]) => obs[t] = obs[u]

\* two threads entered success() of one trait before the value was there: one
\* first constructed it, the other had to wait for it, and both have read it
C5_Witness ==
    \E t, u \in Threads :
        /\ t # u
        /\ tdom[t] = tdom[u]
        /\ pc[t] = "idle"
        /\ pc[u] = "acquire"
        /\ obs[t] = SuccessValue(tdom[t])
        /\ ctors[tdom[t]] = 1

(* C6: whatever was done before (Results constructed, the value of          *)
(* success() copied and the copies appended to, success() called again),    *)
(* success() gives a Result with isSuccess(), an empty message and the      *)
(* format "Success", and the values it gives compare equal.                 *)
C6_SuccessValueInvariant ==
    /\ \A d \in Traits :
          /\ ctors[d] <= 1
          /\ guard[d] = "done" => stat[d] = SuccessValue(d)
    /\ last.op \in {"success", "successCopy"} =>
          /\ isSuccess(last.retR)
          /\ getMessage(last.retR) = <<>>
          /\ format(last.retR) = SuccessText
          /\ EqOp(last.retR, stat[last.retR.dom])
    /\ (last.op = "eqSuccess" /\ hist.succ) => last.retB

\* success() was called again after a copy of its value had been appended to
C6_Witness ==
    /\ last.op = "success"
    /\ hist.succ
    /\ r.alive
    /\ r.msg # <<>>
    /\ last.retR.dom = r.dom
    /\ ctors[r.dom] = 1

====
